---- MODULE Spec2Model ----
(***************************************************************************)
(* Model of the SentinelOne collector (src/main.py): fetch_with_retry,     *)
(* create_dataframe, export_to_csv and main.                               *)
(*                                                                         *)
(* Conventions                                                             *)
(*  - Python strings that are searched or joined (endpoint paths,          *)
(*    RATE_LIMITS keys, the keys of JSON objects) are tuples of            *)
(*    one-character strings, so that `key in endpoint` is a real substring *)
(*    test and f"{key}_{sub_key}" a real concatenation.                    *)
(*  - A Python dict is a sequence of <<key, value>> pairs in insertion     *)
(*    order.                                                               *)
(*  - None is <<>> and a present value x is <<x>> for rate_limit and for   *)
(*    cursors.  For params and alt_endpoints None and the empty container  *)
(*    are both <<>>: the code only ever tests their truthiness.            *)
(*  - Durations are integers in milliseconds; a rate (requests/second) is  *)
(*    the fraction num/den.                                                *)
(***************************************************************************)
EXTENDS Integers, Sequences, FiniteSets, TLC

----------------------------------------------------------------------------
(* Bounds of the model (not program constants).                            *)

\* Faulty responses the transport may give during one fetch_with_retry call.
MaxFaults == 6
\* The same, in the runs of main over several datasets.
MaxRunFaults == 4
\* Pages a finite server holds per candidate (1..MaxServerPages).
MaxServerPages == 3
\* Records on each non-empty page.
MaxRecs == 2
\* Longest --endpoints list drawn in the runs over several datasets.
MaxArgs == 2
\* Longest list given to create_dataframe in its direct calls.
MaxItems == 2

----------------------------------------------------------------------------
(* Generic helpers.                                                        *)

None == <<>>

Some(x) == <<x>>

Max(a, b) == IF a >= b THEN a ELSE b

RECURSIVE Pow2(_)
Pow2(n) == IF n <= 0 THEN 1 ELSE 2 * Pow2(n - 1)

Seconds(n) == n * 1000

Range(s) == {s[i] : i \in 1..Len(s)}

\* Python truthiness of an optional cursor value.
Truthy(o) == o # None /\ o[1] # 0

\* `key in endpoint` for Python strings.
IsSubstring(key, str) ==
    \E i \in 0..(Len(str) - Len(key)) :
        \A j \in 1..Len(key) : str[i + j] = key[j]

DictHas(d, k) == \E i \in 1..Len(d) : d[i][1] = k

DictGet(d, k, default) ==
    IF DictHas(d, k)
    THEN d[CHOOSE i \in 1..Len(d) : d[i][1] = k][2]
    ELSE default

DictSet(d, k, v) ==
    IF DictHas(d, k)
    THEN [i \in 1..Len(d) |-> IF d[i][1] = k THEN <<k, v>> ELSE d[i]]
    ELSE Append(d, <<k, v>>)

DictKeys(d) == [i \in 1..Len(d) |-> d[i][1]]

\* JSON values: a number, a string, a mapping (a dict of JSON values) or a
\* list of JSON values.  Each kind keeps its content in a field of its own.
Scalar(x) == [t |-> "scalar", n |-> x]

Text(x) == [t |-> "str", s |-> x]

Mapping(d) == [t |-> "dict", v |-> d]

ListOf(l) == [t |-> "list", items |-> l]

\* isinstance(x, dict), isinstance(x, list), isinstance(x, str).
IsDict(x) == x.t = "dict"

IsList(x) == x.t = "list"

IsStr(x) == x.t = "str"

\* `not data` for a JSON value.
Falsy(x) ==
    IF x.t = "dict" THEN x.v = <<>>
    ELSE IF x.t = "list" THEN x.items = <<>>
    ELSE IF x.t = "scalar" THEN x.n = 0
    ELSE IF x.t = "str" THEN x.s = ""
    ELSE FALSE

\* str(x): a string is itself, anything else becomes its representation.
Stringify(x) == IF IsStr(x) THEN x ELSE [t |-> "repr", of |-> x]

----------------------------------------------------------------------------
(* Configuration (src/main.py lines 55-144).                               *)

MAX_RETRIES == 3
RETRY_DELAY == 2
TIMEOUT == 30
REQUEST_DELAY == 1
max_pages == 100

Rate(num, den) == [num |-> num, den |-> den]

RATE_LIMITS ==
    << <<  <<"a", "g", "e", "n", "t", "s">>, Rate(25, 1) >>,
       <<  <<"t", "h", "r", "e", "a", "t", "s">>, Rate(25, 1) >>,
       <<  <<"c", "l", "o", "u", "d", "-", "d", "e", "t", "e", "c", "t", "i", "o", "n", "/", "r", "u", "l", "e", "s">>, Rate(1, 2) >>,
       <<  <<"t", "h", "r", "e", "a", "t", "-", "i", "n", "t", "e", "l", "l", "i", "g", "e", "n", "c", "e">>, Rate(2, 25) >>,
       <<  <<"d", "e", "f", "a", "u", "l", "t">>, Rate(1, 1) >> >>

Limit100 == << <<"limit", 100>> >>

Config(endpoint, params, alts, paginate, rate) ==
    [endpoint |-> endpoint, params |-> params, alt_endpoints |-> alts,
     paginate |-> paginate, rate_limit |-> rate]

ENDPOINTS ==
    << <<"sites", Config(<<"/", "s", "i", "t", "e", "s">>, Limit100, None, TRUE, None)>>,
       <<"policies", Config(<<"/", "p", "o", "l", "i", "c", "i", "e", "s">>, Limit100,
            << <<"/", "e", "n", "d", "p", "o", "i", "n", "t", "-", "p", "o", "l", "i", "c", "i", "e", "s">>,
               <<"/", "p", "o", "l", "i", "c", "y">>,
               <<"/", "s", "e", "t", "t", "i", "n", "g", "s", "/", "p", "o", "l", "i", "c", "i", "e", "s">> >>,
            TRUE, None)>>,
       <<"exclusions", Config(<<"/", "e", "x", "c", "l", "u", "s", "i", "o", "n", "s">>, Limit100, None, TRUE, None)>>,
       <<"deployments", Config(<<"/", "d", "e", "p", "l", "o", "y", "m", "e", "n", "t", "-", "p", "a", "c", "k", "s">>, Limit100,
            << <<"/", "i", "n", "s", "t", "a", "l", "l", "-", "p", "a", "c", "k", "a", "g", "e", "s">>,
               <<"/", "i", "n", "s", "t", "a", "l", "l", "e", "r", "-", "p", "a", "c", "k", "a", "g", "e", "s">>,
               <<"/", "p", "a", "c", "k", "a", "g", "e", "s">>,
               <<"/", "s", "e", "n", "t", "i", "n", "e", "l", "s", "/", "i", "n", "s", "t", "a", "l", "l", "e", "r">> >>,
            TRUE, None)>>,
       <<"agents", Config(<<"/", "a", "g", "e", "n", "t", "s">>, Limit100,
            << <<"/", "s", "e", "n", "t", "i", "n", "e", "l", "s">> >>,
            TRUE, Some(Rate(25, 1)))>>,
       <<"rules", Config(<<"/", "r", "u", "l", "e", "s">>, Limit100,
            << <<"/", "f", "i", "r", "e", "w", "a", "l", "l", "/", "r", "u", "l", "e", "s">>,
               <<"/", "n", "e", "t", "w", "o", "r", "k", "/", "r", "u", "l", "e", "s">>,
               <<"/", "f", "i", "r", "e", "w", "a", "l", "l", "-", "r", "u", "l", "e", "s">>,
               <<"/", "s", "e", "t", "t", "i", "n", "g", "s", "/", "r", "u", "l", "e", "s">> >>,
            TRUE, None)>>,
       <<"alerts", Config(<<"/", "a", "l", "e", "r", "t", "s">>, Limit100,
            << <<"/", "t", "h", "r", "e", "a", "t", "s">>,
               <<"/", "a", "c", "t", "i", "v", "i", "t", "i", "e", "s">>,
               <<"/", "d", "e", "t", "e", "c", "t", "i", "o", "n", "s">> >>,
            TRUE, Some(Rate(25, 1)))>>,
       <<"api_tokens", Config(<<"/", "u", "s", "e", "r", "s", "/", "a", "p", "i", "-", "t", "o", "k", "e", "n", "-", "d", "e", "t", "a", "i", "l", "s">>, None,
            << <<"/", "a", "p", "i", "-", "t", "o", "k", "e", "n", "s">>,
               <<"/", "s", "y", "s", "t", "e", "m", "/", "a", "p", "i", "-", "t", "o", "k", "e", "n", "s">>,
               <<"/", "r", "b", "a", "c", "/", "a", "p", "i", "-", "t", "o", "k", "e", "n", "s">>,
               <<"/", "s", "e", "t", "t", "i", "n", "g", "s", "/", "u", "s", "e", "r", "/", "t", "o", "k", "e", "n", "s">> >>,
            FALSE, None)>> >>

\* Lines 96-131: the fallback bases configured at start-up.  base_url_set
\* says whether the BASE_URL environment variable is set; api_version is
\* the API_VERSION in use.
FallbackUrls(base_url_set, api_version) ==
    IF base_url_set THEN <<>>
    ELSE SelectSeq(<<"v2.1", "v2.0", "v2">>, LAMBDA v : v # api_version)

BASE_URL == "base"

Url(base, path) == [base |-> base, path |-> path]

----------------------------------------------------------------------------
(* State.                                                                  *)

VARIABLES
    \* environment
    FALLBACK_URLS,      \* line 111 / 131
    args_endpoints,     \* args.endpoints: None or Some(list of names)
    server,             \* the transport stub's content: [endless, pages, recs]
    faultBudget,        \* faulty responses the stub may give per call
    frame_input,        \* arguments of a direct call of create_dataframe
    \* main()
    pc,                 \* "start", "loop", "fetch", "done"; "frame" in a direct call
    selected_endpoints, \* names, in dict order
    idx,                \* position of the for loop of line 523
    collection_status,  \* dict name -> bool
    dataframes,         \* dict name -> table
    success_count,
    exit_code,          \* None, or Some(status the process ends with, line 559)
    \* fetch_with_retry()
    call,               \* the arguments of the running call
    fetch,              \* the locals of the running call
    \* observation (history) variables
    obs,
    fetchLog            \* names for which fetch_with_retry was called, in order

vars == <<FALLBACK_URLS, args_endpoints, server, faultBudget, frame_input, pc, selected_endpoints, idx,
          collection_status, dataframes, success_count, exit_code, call,
          fetch, obs, fetchLog>>

envVars == <<FALLBACK_URLS, args_endpoints, server, faultBudget, frame_input>>

mainVars == <<selected_endpoints, idx, collection_status, dataframes,
              success_count, exit_code>>

----------------------------------------------------------------------------
(* Rate limit of a call (lines 149-162).                                   *)

RECURSIVE FirstMatch(_, _, _)
FirstMatch(table, endpoint, i) ==
    IF i > Len(table) THEN None
    ELSE IF IsSubstring(table[i][1], endpoint) THEN Some(table[i][2])
    ELSE FirstMatch(table, endpoint, i + 1)

ResolveRateLimit(rate_limit, endpoint) ==
    IF rate_limit # None THEN rate_limit[1]
    ELSE LET m == FirstMatch(RATE_LIMITS, endpoint, 1)
         IN  IF m # None THEN m[1]
             ELSE DictGet(RATE_LIMITS, <<"d", "e", "f", "a", "u", "l", "t">>, Rate(1, 1))

SleepTimeOf(rate) ==
    IF rate.num > 0 THEN Seconds(rate.den) \div rate.num ELSE Seconds(1)

InitialSleepTime(rate_limit, endpoint) ==
    SleepTimeOf(ResolveRateLimit(rate_limit, endpoint))

----------------------------------------------------------------------------
(* The transport stub: requests.get + raise_for_status + json.             *)

IndexOf(s, x) == CHOOSE i \in 1..Len(s) : s[i] = x

\* A number identifying the candidate a URL belongs to in the running call:
\* 0 primary, i the i-th alternate, 10 + j the j-th fallback base.
CandNo(u) ==
    IF u.base # BASE_URL THEN 10 + IndexOf(FALLBACK_URLS, u.base)
    ELSE IF u.path = call.endpoint THEN 0
    ELSE IndexOf(call.alt_endpoints, u.path)

JsonRecord(cand, page, j) ==
    << <<<<"i", "d">>, Scalar(cand * 1000 + page * 10 + j)>>,
       <<<<"o", "r", "i", "g", "i", "n">>,
         Mapping(<< <<<<"c", "a", "n", "d">>, Scalar(cand)>>, <<<<"p", "a", "g", "e">>, Scalar(page)>> >>)>> >>

\* The records of the page that follows `c` served pages.
PageRecords(cand, c) == [j \in 1..server.recs |-> JsonRecord(cand, c + 1, j)]

HasNext(c) == server.endless \/ c + 1 < server.pages

OkResponse(u, params) ==
    LET c == DictGet(params, "cursor", 0)
    IN  [kind |-> "ok", status |-> 200,
         data |-> PageRecords(CandNo(u), c),
         nextCursor |-> IF HasNext(c) THEN Some(c + 1) ELSE None]

Fault(kind, status) ==
    [kind |-> kind, status |-> status, data |-> <<>>, nextCursor |-> None]

\* HTTPError with its status, ConnectionError, Timeout, and any other
\* exception (a body that is not JSON, a redirect loop, ...).
Faults ==
    {Fault("http", s) : s \in {401, 403, 404, 429, 500}}
    \cup {Fault("conn", 0), Fault("timeout", 0), Fault("unexpected", 0)}

\* A 200 whose body holds the page under "data" and null under
\* "pagination".
NullPagination(u, params) ==
    [kind |-> "nullpag", status |-> 200,
     data |-> PageRecords(CandNo(u), DictGet(params, "cursor", 0)),
     nextCursor |-> None]

Transport(u, params) ==
    {OkResponse(u, params)}
        \cup (IF obs.faults < faultBudget
              THEN Faults \cup {NullPagination(u, params)}
              ELSE {})

\* Lines 203-225, 302-325, 361-384: what reading the body makes of the
\* response.  The records under "data" are added to the accumulator first
\* (lines 205, 304, 363); then, in a call that paginates, pagination.get
\* raises AttributeError on a null "pagination" (lines 215, 314, 373), while
\* a call that does not paginate never reads it.  A fault raised by the
\* request or by response.json() has added no record.
ReadBody(r, paginate) ==
    IF r.kind = "nullpag"
    THEN [r EXCEPT !.kind = IF paginate THEN "unexpected" ELSE "ok"]
    ELSE r

----------------------------------------------------------------------------
(* Observation of one request.                                             *)

ObsInit ==
    [faults |-> 0, n429 |-> 0, tried |-> <<>>, reqs |-> 0, consecFail |-> 0,
     allOk |-> TRUE, lastNext |-> None, sent |-> None, expect |-> None,
     gap |-> 0, gapK |-> 0, backoff |-> 0, rateSleep |-> 0,
     dataFrom |-> {}, failed |-> {}, lastKind |-> "none", lastStatus |-> 0]

\* u: the URL requested; params: the query sent; k: failed attempts of the
\* running retry loop before this request; backoff: the backoff sleep done
\* since the previous response; rateSleep: the inter-request sleep done just
\* before this request; r: the response.
ObsRequest(o, u, params, k, backoff, rateSleep, r) ==
    LET same == o.tried # <<>> /\ o.tried[Len(o.tried)] = u
        ok   == r.kind = "ok"
    IN  [o EXCEPT
            !.faults = IF ok THEN @ ELSE @ + 1,
            !.n429 = IF r.kind = "http" /\ r.status = 429 THEN @ + 1 ELSE @,
            !.tried = IF same THEN @ ELSE Append(@, u),
            !.reqs = IF same THEN @ + 1 ELSE 1,
            !.consecFail = IF ok THEN 0 ELSE IF same THEN @ + 1 ELSE 1,
            !.allOk = IF same THEN @ /\ ok ELSE ok,
            !.expect = IF same THEN o.lastNext ELSE None,
            !.sent = IF DictHas(params, "cursor")
                     THEN Some(DictGet(params, "cursor", 0)) ELSE None,
            !.lastNext = IF ok THEN r.nextCursor
                         ELSE IF same THEN @ ELSE None,
            !.gap = backoff + rateSleep,
            !.gapK = k,
            !.backoff = backoff,
            !.rateSleep = rateSleep,
            !.dataFrom = IF r.data # <<>> THEN @ \cup {u} ELSE @,
            !.lastKind = r.kind,
            !.lastStatus = r.status]

ObsFailed(o, u) == [o EXCEPT !.failed = @ \cup {u}]

----------------------------------------------------------------------------
(* fetch_with_retry (lines 147-389).                                       *)

\* Mutant of FetchEntry: the escalated delay is module state that outlives
\* the call, so the 429s of the previous call still count.
FetchEntry_SharedDelay(endpoint, rate_limit) ==
    [at |-> "page_top",
     sleep_time |-> InitialSleepTime(rate_limit, endpoint) * Pow2(obs.n429),
     url |-> Url(BASE_URL, endpoint),
     attempts |-> 0,
     primary_failed |-> FALSE,
     all_data |-> <<>>,
     next_cursor |-> None,
     page_count |-> 0,
     current_params |-> <<>>,
     slept |-> 0,
     alt_i |-> 0,
     alt_url |-> Url(BASE_URL, endpoint),
     alt_all_data |-> <<>>,
     alt_next_cursor |-> None,
     alt_page_count |-> 0,
     fb_i |-> 0,
     fallback_full_url |-> Url(BASE_URL, endpoint),
     fallback_all_data |-> <<>>,
     fallback_next_cursor |-> None,
     fallback_page_count |-> 0,
     ret |-> <<>>]

\* Lines 149-173: the locals on entry.  A local the code has not assigned
\* yet holds the value of its first assignment.  `slept` is the time spent
\* in time.sleep since the last request.
FetchEntry(endpoint, rate_limit) ==
    [at |-> "page_top",
     sleep_time |-> InitialSleepTime(rate_limit, endpoint),
     url |-> Url(BASE_URL, endpoint),
     attempts |-> 0,
     primary_failed |-> FALSE,
     all_data |-> <<>>,
     next_cursor |-> None,
     page_count |-> 0,
     current_params |-> <<>>,
     slept |-> 0,
     alt_i |-> 0,
     alt_url |-> Url(BASE_URL, endpoint),
     alt_all_data |-> <<>>,
     alt_next_cursor |-> None,
     alt_page_count |-> 0,
     fb_i |-> 0,
     fallback_full_url |-> Url(BASE_URL, endpoint),
     fallback_all_data |-> <<>>,
     fallback_next_cursor |-> None,
     fallback_page_count |-> 0,
     ret |-> <<>>]

\* The frame when no call is running.
NoCall == [FetchEntry(<<>>, Some(Rate(1, 1))) EXCEPT !.at = "idle"]

\* Lines 182-186, 289-293, 348-352.
CurrentParams(params, paginate, cursor) ==
    IF paginate /\ Truthy(cursor) THEN DictSet(params, "cursor", cursor[1])
    ELSE params

\* Mutant of Extend: the new page is put in front.
Extend_Prepend(all, data) == data \o all

\* Lines 205, 304, 363: all_data.extend(data).
Extend(all, data) == all \o data

\* Lines 196-198.
PreRequestSleep(attempts, page_count, sleep_time) ==
    IF attempts > 0 \/ page_count > 1
    THEN Max(sleep_time, Seconds(REQUEST_DELAY))
    ELSE 0

\* Lines 296-297.
AltPreRequestSleep(alt_page_count, sleep_time) ==
    IF alt_page_count > 1 THEN sleep_time ELSE 0

\* Lines 355-356.
FallbackPreRequestSleep(fallback_page_count, sleep_time) ==
    IF fallback_page_count > 1 THEN sleep_time ELSE 0

\* Mutant of WaitTime: no exponential growth.
WaitTime_Constant(attempts) == Seconds(RETRY_DELAY)

\* Line 258.
WaitTime(attempts) == Seconds(RETRY_DELAY) * Pow2(attempts - 1)

\* Line 240.
Escalate(sleep_time) == sleep_time * 2

\* Mutant of NotFoundExhausted: a 404 on any attempt gives the primary up.
NotFoundExhausted_AnyAttempt(status, alt_endpoints, attempts, page_count) ==
    /\ status = 404
    /\ alt_endpoints # <<>>
    /\ page_count = 1

\* Line 241.
NotFoundExhausted(status, alt_endpoints, attempts, page_count) ==
    /\ status = 404
    /\ alt_endpoints # <<>>
    /\ attempts = MAX_RETRIES - 1
    /\ page_count = 1

\* Line 265.
ExitPagination(paginate, next_cursor, primary_failed) ==
    ~paginate \/ ~Truthy(next_cursor) \/ primary_failed

\* Mutant of PageCeilingReached: off by one.
PageCeilingReached_OffByOne(page_count) == page_count > max_pages

\* Lines 177, 284, 343.
PageCeilingReached(page_count) == page_count >= max_pages

\* Mutant of IsAuthFailure: 403 is not recognised.
IsAuthFailure_Only401(r) == r.kind = "http" /\ r.status = 401

\* Lines 232-237.
IsAuthFailure(r) == r.kind = "http" /\ r.status \in {401, 403}

Return(f, value) == [f EXCEPT !.at = "returned", !.ret = value]

\* Mutant of StartAlt: the accumulator of the alternate before is kept.
StartAlt_KeepData(f, i) ==
    [f EXCEPT !.at = "alt", !.alt_i = i,
              !.alt_url = Url(BASE_URL, call.alt_endpoints[i]),
              !.alt_next_cursor = None,
              !.alt_page_count = 0]

\* Lines 274-281: start on the i-th alternate endpoint.
StartAlt(f, i) ==
    [f EXCEPT !.at = "alt", !.alt_i = i,
              !.alt_url = Url(BASE_URL, call.alt_endpoints[i]),
              !.alt_all_data = <<>>, !.alt_next_cursor = None,
              !.alt_page_count = 0]

\* Lines 333-340: start on the j-th fallback base.
StartFallback(f, j) ==
    [f EXCEPT !.at = "fallback", !.fb_i = j,
              !.fallback_full_url = Url(FALLBACK_URLS[j], call.endpoint),
              !.fallback_all_data = <<>>, !.fallback_next_cursor = None,
              !.fallback_page_count = 0]

\* Line 389.
ReturnNothing(f) == Return(f, <<>>)

\* Lines 330-333: after the alternates.
AfterAlternates(f) ==
    IF f.primary_failed /\ FALLBACK_URLS # <<>>
    THEN StartFallback(f, 1)
    ELSE ReturnNothing(f)

\* Mutant of AfterPrimary: the fallback bases are tried before the alternates.
AfterPrimary_FallbackFirst(f) ==
    IF f.all_data # <<>> THEN Return(f, f.all_data)
    ELSE IF f.primary_failed /\ FALLBACK_URLS # <<>> THEN StartFallback(f, 1)
    ELSE IF f.primary_failed /\ call.alt_endpoints # <<>> THEN StartAlt(f, 1)
    ELSE ReturnNothing(f)

\* Lines 268-274: after the pagination loop of the primary endpoint.
AfterPrimary(f) ==
    IF f.all_data # <<>> THEN Return(f, f.all_data)
    ELSE IF f.primary_failed /\ call.alt_endpoints # <<>> THEN StartAlt(f, 1)
    ELSE AfterAlternates(f)

\* Lines 264-266: the end of one pass of the pagination loop.
EndOfPage(f) ==
    IF ExitPagination(call.paginate, f.next_cursor, f.primary_failed)
    THEN AfterPrimary(f)
    ELSE [f EXCEPT !.at = "page_top"]

\* Mutant of RetryTail: the attempt is not counted.
RetryTail_NoCount(f) == [f EXCEPT !.slept = @ + WaitTime(1)]

\* Lines 255-262, then the loop test of line 189.
RetryTail(f) ==
    LET g == [f EXCEPT !.attempts = @ + 1]
    IN  IF g.attempts < MAX_RETRIES
        THEN [g EXCEPT !.slept = @ + WaitTime(g.attempts)]
        ELSE EndOfPage(g)

\* Lines 203-228.
OnPrimarySuccess(f, r) ==
    EndOfPage([f EXCEPT !.all_data = Extend(@, r.data),
                        !.next_cursor = IF call.paginate THEN r.nextCursor ELSE @])

\* Mutant of OnPrimaryHttpError: a 401/403 returns the pages accumulated so
\* far, as an unexpected fault does.
OnPrimaryHttpError_AuthKeepsData(f, r) ==
    IF IsAuthFailure(r) THEN Return(f, f.all_data)
    ELSE IF r.status = 429
    THEN RetryTail([f EXCEPT !.sleep_time = Escalate(@)])
    ELSE IF NotFoundExhausted(r.status, call.alt_endpoints, f.attempts, f.page_count)
    THEN EndOfPage([f EXCEPT !.primary_failed = TRUE])
    ELSE RetryTail(f)

\* Lines 230-248.
OnPrimaryHttpError(f, r) ==
    IF IsAuthFailure(r) THEN Return(f, <<>>)
    ELSE IF r.status = 429
    THEN RetryTail([f EXCEPT !.sleep_time = Escalate(@)])
    ELSE IF NotFoundExhausted(r.status, call.alt_endpoints, f.attempts, f.page_count)
    THEN EndOfPage([f EXCEPT !.primary_failed = TRUE])
    ELSE RetryTail(f)

\* Mutant of OnPrimaryUnexpected: the accumulated pages are dropped.
OnPrimaryUnexpected_Discard(f) == Return(f, <<>>)

\* Lines 251-253: all_data as it is when the exception is raised.
OnPrimaryUnexpected(f) == Return(f, f.all_data)

\* Lines 200-253: the response of one attempt on the primary endpoint.
OnPrimaryResponse(f, r) ==
    IF r.kind = "ok" THEN OnPrimarySuccess(f, r)
    ELSE IF r.kind = "http" THEN OnPrimaryHttpError(f, r)
    ELSE IF r.kind \in {"conn", "timeout"} THEN RetryTail(f)
    ELSE OnPrimaryUnexpected([f EXCEPT !.all_data = Extend(@, r.data)])

\* Lines 176-188: the top of the pagination loop.
PrimaryPageTop ==
    /\ pc = "fetch"
    /\ fetch.at = "page_top"
    /\ fetch' = IF PageCeilingReached(fetch.page_count)
                THEN AfterPrimary(fetch)
                ELSE [fetch EXCEPT
                        !.at = "attempt",
                        !.page_count = @ + 1,
                        !.current_params =
                            CurrentParams(call.params, call.paginate, fetch.next_cursor),
                        !.attempts = 0]
    /\ UNCHANGED <<envVars, mainVars, pc, call, obs, fetchLog>>

\* Lines 189-266: one attempt on the primary endpoint.
PrimaryAttempt ==
    /\ pc = "fetch"
    /\ fetch.at = "attempt"
    /\ \E raw \in Transport(fetch.url, fetch.current_params) :
        LET r   == ReadBody(raw, call.paginate)
            pre == PreRequestSleep(fetch.attempts, fetch.page_count, fetch.sleep_time)
            g   == OnPrimaryResponse([fetch EXCEPT !.slept = 0], r)
            o   == ObsRequest(obs, fetch.url, fetch.current_params,
                              fetch.attempts, fetch.slept, pre, r)
        IN  /\ fetch' = g
            /\ obs' = IF r.kind # "ok" /\ g.at \notin {"attempt", "page_top"}
                      THEN ObsFailed(o, fetch.url) ELSE o
    /\ UNCHANGED <<envVars, mainVars, pc, call, fetchLog>>

\* The locals of the alternate loop once it is left by an exception: the
\* code never reads them again, so the frame keeps no trace of them.
LeaveAlt(f) ==
    [f EXCEPT !.alt_all_data = <<>>, !.alt_next_cursor = None, !.alt_page_count = 0]

\* Lines 326-328: an alternate endpoint raised; go on with the next one.
OnAltException(f) ==
    IF f.alt_i < Len(call.alt_endpoints)
    THEN StartAlt(f, f.alt_i + 1)
    ELSE AfterAlternates(LeaveAlt(f))

\* Mutant of OnAltSuccess: a nextCursor is followed whether or not the call
\* paginates.
OnAltSuccess_FollowCursor(f, r) ==
    LET g == [f EXCEPT !.alt_all_data = Extend(@, r.data),
                       !.alt_next_cursor = r.nextCursor]
    IN  IF Truthy(g.alt_next_cursor)
        THEN g
        ELSE Return(g, g.alt_all_data)

\* Lines 302-325.
OnAltSuccess(f, r) ==
    LET g == [f EXCEPT !.alt_all_data = Extend(@, r.data),
                       !.alt_next_cursor = IF call.paginate THEN r.nextCursor ELSE @]
    IN  IF call.paginate /\ Truthy(g.alt_next_cursor)
        THEN g
        ELSE Return(g, g.alt_all_data)

\* Lines 299-328.
OnAltResponse(f, r) ==
    IF r.kind = "ok" THEN OnAltSuccess(f, r) ELSE OnAltException(f)

\* Lines 283-328: one pass of the loop of an alternate endpoint.
AltIteration ==
    /\ pc = "fetch"
    /\ fetch.at = "alt"
    /\ IF PageCeilingReached(fetch.alt_page_count)
       THEN /\ fetch' = Return(fetch, fetch.alt_all_data)
            /\ obs' = obs
       ELSE LET f1 == [fetch EXCEPT !.alt_page_count = @ + 1, !.slept = 0]
                alt_current_params ==
                    CurrentParams(call.params, call.paginate, fetch.alt_next_cursor)
                pre == AltPreRequestSleep(f1.alt_page_count, fetch.sleep_time)
            IN  \E raw \in Transport(fetch.alt_url, alt_current_params) :
                    /\ fetch' = OnAltResponse(f1, ReadBody(raw, call.paginate))
                    /\ obs' = LET r == ReadBody(raw, call.paginate)
                                  o == ObsRequest(obs, fetch.alt_url, alt_current_params,
                                                  0, fetch.slept, pre, r)
                              IN  IF r.kind = "ok" THEN o
                                  ELSE ObsFailed(o, fetch.alt_url)
    /\ UNCHANGED <<envVars, mainVars, pc, call, fetchLog>>

\* The locals of the fallback loop once it is left by an exception.
LeaveFallback(f) ==
    [f EXCEPT !.fallback_all_data = <<>>, !.fallback_next_cursor = None,
              !.fallback_page_count = 0]

\* Mutant of OnFallbackException: the last fallback base returns what it
\* had accumulated when it raised.
OnFallbackException_KeepPartial(f) ==
    IF f.fb_i < Len(FALLBACK_URLS)
    THEN StartFallback(f, f.fb_i + 1)
    ELSE Return(f, f.fallback_all_data)

\* Lines 385-387: a fallback base raised; go on with the next one.
OnFallbackException(f) ==
    IF f.fb_i < Len(FALLBACK_URLS)
    THEN StartFallback(f, f.fb_i + 1)
    ELSE ReturnNothing(LeaveFallback(f))

\* Lines 361-384.
OnFallbackSuccess(f, r) ==
    LET g == [f EXCEPT !.fallback_all_data = Extend(@, r.data),
                       !.fallback_next_cursor =
                            IF call.paginate THEN r.nextCursor ELSE @]
    IN  IF call.paginate /\ Truthy(g.fallback_next_cursor)
        THEN g
        ELSE Return(g, g.fallback_all_data)

\* Lines 358-387.
OnFallbackResponse(f, r) ==
    IF r.kind = "ok" THEN OnFallbackSuccess(f, r) ELSE OnFallbackException(f)

\* Lines 342-387: one pass of the loop of a fallback base.
FallbackIteration ==
    /\ pc = "fetch"
    /\ fetch.at = "fallback"
    /\ IF PageCeilingReached(fetch.fallback_page_count)
       THEN /\ fetch' = Return(fetch, fetch.fallback_all_data)
            /\ obs' = obs
       ELSE LET f1 == [fetch EXCEPT !.fallback_page_count = @ + 1, !.slept = 0]
                fallback_current_params ==
                    CurrentParams(call.params, call.paginate, fetch.fallback_next_cursor)
                pre == FallbackPreRequestSleep(f1.fallback_page_count, fetch.sleep_time)
            IN  \E raw \in Transport(fetch.fallback_full_url, fallback_current_params) :
                    /\ fetch' = OnFallbackResponse(f1, ReadBody(raw, call.paginate))
                    /\ obs' = LET r == ReadBody(raw, call.paginate)
                                  o == ObsRequest(obs, fetch.fallback_full_url,
                                                  fallback_current_params,
                                                  0, fetch.slept, pre, r)
                              IN  IF r.kind = "ok" THEN o
                                  ELSE ObsFailed(o, fetch.fallback_full_url)
    /\ UNCHANGED <<envVars, mainVars, pc, call, fetchLog>>

----------------------------------------------------------------------------
(* create_dataframe (lines 391-474) and export_to_csv (lines 476-491).     *)

\* A table: its column names in order and its rows (dicts).
Table(columns, rows) == [columns |-> columns, rows |-> rows]

EmptyTable == Table(<<>>, <<>>)

RowKeys(row) == Range(DictKeys(row))

\* The first row that has key k, and k's place in that row.
FirstRowWith(rows, k) ==
    CHOOSE i \in 1..Len(rows) :
        k \in RowKeys(rows[i]) /\ \A h \in 1..(i - 1) : k \notin RowKeys(rows[h])

PlaceIn(row, k) == CHOOSE j \in 1..Len(row) : row[j][1] = k

SeenBefore(rows, a, b) ==
    LET ra == FirstRowWith(rows, a)
        rb == FirstRowWith(rows, b)
    IN  ra < rb \/ (ra = rb /\ PlaceIn(rows[ra], a) < PlaceIn(rows[rb], b))

\* The union of the rows' keys, in order of first appearance.
ColumnsOf(rows) ==
    LET keys == UNION {RowKeys(rows[i]) : i \in 1..Len(rows)}
    IN  [n \in 1..Cardinality(keys) |->
            CHOOSE k \in keys :
                Cardinality({x \in keys : SeenBefore(rows, x, k)}) = n - 1]

\* pd.DataFrame(list of dicts).
DataFrame(rows) == Table(ColumnsOf(rows), rows)

\* Mutant of SubKey: the keys are joined as json_normalize joins them.
SubKey_Dot(key, sub_key) == key \o <<".">> \o sub_key

\* Lines 423-424: the string f"{key}_{sub_key}".
SubKey(key, sub_key) == key \o <<"_">> \o sub_key

\* Lines 419-426: one level of flattening of one record (a dict).
RECURSIVE FlattenItem(_, _)
FlattenItem(item, flat_item) ==
    IF item = <<>> THEN flat_item
    ELSE LET key   == Head(item)[1]
             value == Head(item)[2]
             sub   == IF IsDict(value) THEN value.v ELSE <<>>
             RECURSIVE Spread(_, _)
             Spread(i, acc) ==
                IF i > Len(sub) THEN acc
                ELSE Spread(i + 1, DictSet(acc, SubKey(key, sub[i][1]), sub[i][2]))
         IN  FlattenItem(Tail(item),
                         IF IsDict(value) THEN Spread(1, flat_item)
                         ELSE DictSet(flat_item, key, value))

\* Mutant of FlatData: an item that is no dict is kept as a row without
\* columns instead of being skipped.
FlatData_KeepAll(items) ==
    [i \in 1..Len(items) |->
        IF IsDict(items[i]) THEN FlattenItem(items[i].v, <<>>) ELSE <<>>]

\* Lines 411-427: the flattened copies of the dict items; the other items
\* are skipped (lines 414-416).
FlatData(items) ==
    LET dicts == SelectSeq(items, IsDict)
    IN  [i \in 1..Len(dicts) |-> FlattenItem(dicts[i].v, <<>>)]

\* Lines 402-408: data as the list the sites branch iterates over.
AsList(data) ==
    IF IsList(data) THEN data.items
    ELSE IF IsDict(data) THEN <<data>>
    ELSE << Mapping(<< <<<<"d", "a", "t", "a">>, data>> >>) >>

\* The outcome of a construction stage: a table, or an exception.
Ok(df) == [ok |-> TRUE, df |-> df]

Raise == [ok |-> FALSE, df |-> EmptyTable]

\* The pandas calls of create_dataframe, by line.
Stages == {"DataFrame430", "json_normalize442", "DataFrame449", "DataFrame454",
           "DataFrame460", "json_normalize466"}

\* A pandas call: it raises when pandas rejects the input (`raises` holds the
\* calls that do, `rejected` what is known of the input's shape), else it
\* returns the table.
Stage(stage, raises, rejected, rows) ==
    IF stage \in raises \/ rejected THEN Raise ELSE Ok(DataFrame(rows))

\* pd.DataFrame(list): dicts become rows keyed by their keys; a list that
\* starts with a non-dict becomes a single column 0 holding the items.
PlainRow(item) == item.v

ListRows(items) ==
    IF items # <<>> /\ ~IsDict(items[1])
    THEN [i \in 1..Len(items) |-> << << <<"0">>, items[i] >> >>]
    ELSE [i \in 1..Len(items) |-> PlainRow(items[i])]

\* pd.DataFrame rejects a list that starts with a dict and holds a non-dict.
ListRejected(items) ==
    items # <<>> /\ IsDict(items[1]) /\ \E i \in 1..Len(items) : ~IsDict(items[i])

\* pd.json_normalize of one record: nested dicts are flattened at every
\* level with "." between the keys; an item that is no dict gives a row
\* without columns.
RECURSIVE NormalizeItem(_, _, _)
NormalizeItem(item, prefix, acc) ==
    IF item = <<>> THEN acc
    ELSE LET key   == Head(item)[1]
             value == Head(item)[2]
         IN  NormalizeItem(Tail(item), prefix,
                 IF IsDict(value)
                 THEN NormalizeItem(value.v, prefix \o key \o <<".">>, acc)
                 ELSE DictSet(acc, prefix \o key, value))

NormalizedRows(items) ==
    [i \in 1..Len(items) |->
        IF IsDict(items[i]) THEN NormalizeItem(items[i].v, <<>>, <<>>) ELSE <<>>]

\* Line 449: pd.DataFrame({"name": data}).
NameRows(items) == [i \in 1..Len(items) |-> << << <<"n", "a", "m", "e">>, items[i] >> >>]

\* Line 454: pd.DataFrame([{"data": str(d)} for d in data]).
StrRows(items) ==
    [i \in 1..Len(items) |-> << << <<"d", "a", "t", "a">>, Stringify(items[i]) >> >>]

\* Line 448.
AllStr(items) == \A i \in 1..Len(items) : IsStr(items[i])

\* Lines 446-456: the last resorts of the sites branch; an exception raised
\* here leaves the inner handlers.
SitesLastResort(items, raises) ==
    IF AllStr(items)
    THEN Stage("DataFrame449", raises, FALSE, NameRows(items))
    ELSE Stage("DataFrame454", raises, FALSE, StrRows(items))

\* Lines 438-456: the handler of the flattening approach.
SitesFallback(items, raises) ==
    LET norm == Stage("json_normalize442", raises, FALSE, NormalizedRows(items))
    IN  IF norm.ok THEN norm ELSE SitesLastResort(items, raises)

\* Lines 399-456: the sites branch.
SitesFrame(data, raises) ==
    LET items == AsList(data)
        flat  == IF FlatData(items) # <<>>
                 THEN Stage("DataFrame430", raises, FALSE, FlatData(items))
                 ELSE Raise
    IN  IF flat.ok THEN flat ELSE SitesFallback(items, raises)

\* pd.DataFrame(data) and pd.json_normalize(data) for data that is no list:
\* a scalar is rejected by both; a dict is rejected by pd.DataFrame unless
\* all its values are dicts (then the sub-keys index the rows), and
\* json_normalize makes one row of it.
SubKeyRows(d) ==
    LET subs == UNION {Range(DictKeys(d[i][2].v)) : i \in 1..Len(d)}
        first(k) == CHOOSE i \in 1..Len(d) :
                        /\ DictHas(d[i][2].v, k)
                        /\ \A h \in 1..(i - 1) : ~DictHas(d[h][2].v, k)
        place(k) == CHOOSE j \in 1..Len(d[first(k)][2].v) : d[first(k)][2].v[j][1] = k
        before(a, b) == first(a) < first(b) \/ (first(a) = first(b) /\ place(a) < place(b))
        order == [n \in 1..Cardinality(subs) |->
                    CHOOSE k \in subs : Cardinality({x \in subs : before(x, k)}) = n - 1]
    IN  [n \in 1..Len(order) |->
            LET cols == SelectSeq(d, LAMBDA kv : DictHas(kv[2].v, order[n]))
            IN  [j \in 1..Len(cols) |->
                    << cols[j][1], DictGet(cols[j][2].v, order[n], Scalar(0)) >>]]

\* Lines 459-471: the default approach.
DefaultFrame(data, raises) ==
    LET df   == IF IsList(data)
                THEN Stage("DataFrame460", raises, ListRejected(data.items), ListRows(data.items))
                ELSE IF IsDict(data)
                THEN Stage("DataFrame460", raises,
                           \E i \in 1..Len(data.v) : ~IsDict(data.v[i][2]),
                           SubKeyRows(data.v))
                ELSE Raise
        norm == IF IsList(data)
                THEN Stage("json_normalize466", raises, FALSE, NormalizedRows(data.items))
                ELSE IF IsDict(data)
                THEN Stage("json_normalize466", raises, FALSE, NormalizedRows(<<data>>))
                ELSE Raise
    IN  IF df.ok THEN df
        ELSE IF norm.ok THEN norm
        ELSE Ok(EmptyTable)

\* Mutant of OuterHandler: the exception is raised again.
OuterHandler_Reraise(outcome) == outcome

\* Lines 472-474: the handler of the whole function.
OuterHandler(outcome) == IF outcome.ok THEN outcome ELSE Ok(EmptyTable)

\* Lines 391-474.  data is a JSON value, raises the pandas calls that raise.
create_dataframe(data, name, raises) ==
    OuterHandler(
        IF Falsy(data) THEN Ok(EmptyTable)
        ELSE IF name = "sites" THEN SitesFrame(data, raises)
        ELSE DefaultFrame(data, raises))

\* The record list fetch_with_retry returns, as a JSON value.
Records(data) == ListOf([i \in 1..Len(data) |-> Mapping(data[i])])

\* df.empty
IsEmptyTable(df) == df.rows = <<>> \/ df.columns = <<>>

\* Lines 476-491: TRUE when a file is written.
export_to_csv(df, writes) == ~IsEmptyTable(df) /\ writes

----------------------------------------------------------------------------
(* main (lines 494-556).                                                   *)

\* Lines 506-516: the dict of selected endpoints, as its keys in order.
RECURSIVE FilterEndpoints(_, _)
FilterEndpoints(names, selected) ==
    IF names = <<>> THEN selected
    ELSE FilterEndpoints(Tail(names),
            IF DictHas(ENDPOINTS, Head(names)) /\ Head(names) \notin Range(selected)
            THEN Append(selected, Head(names))
            ELSE selected)

SelectedEndpoints(args) ==
    IF args # None /\ args[1] # <<>>
    THEN FilterEndpoints(args[1], <<>>)
    ELSE DictKeys(ENDPOINTS)

\* Mutant of CollectionStatus: >= instead of >.
CollectionStatus_NonNegative(data) == Len(data) >= 0

\* Line 534.
CollectionStatus(data) == Len(data) > 0

\* What is observed of one call of fetch_with_retry by main: the dataset,
\* the number of records returned (-1 while the call runs), the last
\* response and the number of 429 responses.
LogEntry(name, count, lastKind, lastStatus, n429) ==
    [name |-> name, count |-> count, lastKind |-> lastKind,
     lastStatus |-> lastStatus, n429 |-> n429]

\* The conditions of stdout that change how the process ends.  Every run
\* writes to stdout: the StreamHandler of line 85 from the first
\* logger.info (line 497) on, and the prints of lines 546-555.
\*   "ok"           the stream takes every character and can be flushed;
\*   "unencodable"  its encoding has no icons (ascii, cp1252): a print of
\*                  an icon raises UnicodeEncodeError;
\*   "unflushable"  what was written cannot be flushed (a full device, a
\*                  pipe whose reader is gone).
Stdouts == {"ok", "unencodable", "unflushable"}

\* Line 559, sys.exit(main()): the status the process ends with when main
\* ends with `ended` (its return value, or 1 for an exception that leaves
\* it).  The interpreter flushes stdout at exit, and a flush that fails turns
\* the status into 120 whatever main ended with.
ProcessStatus(ended, stdout) == IF stdout = "unflushable" THEN 120 ELSE ended

\* Lines 496-520.  os.makedirs(OUTPUT_DIR) of line 500 creates the directory
\* or raises (an empty or unusable OUTPUT_DIR); the handler of lines 553-556
\* then ends main with 1 before anything is selected (by its return, or by
\* the exception of its own print of line 555).  An empty selection returns
\* 1 at line 520.  The process ends with that status, or with 120 when
\* stdout cannot be flushed.
MainSelect ==
    /\ pc = "start"
    /\ \E created \in BOOLEAN, stdout \in Stdouts :
        LET sel == SelectedEndpoints(args_endpoints)
        IN  IF ~created
            THEN /\ selected_endpoints' = selected_endpoints
                 /\ idx' = idx
                 /\ pc' = "done"
                 /\ exit_code' = Some(ProcessStatus(1, stdout))
            ELSE /\ selected_endpoints' = sel
                 /\ idx' = 1
                 /\ IF sel = <<>>
                    THEN /\ pc' = "done"
                         /\ exit_code' = Some(ProcessStatus(1, stdout))
                    ELSE /\ pc' = "loop"
                         /\ exit_code' = exit_code
    /\ UNCHANGED <<envVars, collection_status, dataframes, success_count,
                   call, fetch, obs, fetchLog>>

\* Lines 523-533: the call of fetch_with_retry for the next dataset.
MainCall ==
    /\ pc = "loop"
    /\ idx <= Len(selected_endpoints)
    /\ LET name   == selected_endpoints[idx]
           config == DictGet(ENDPOINTS, name, Config(<<>>, None, None, FALSE, None))
       IN  /\ call' = config
           /\ fetch' = FetchEntry(config.endpoint, config.rate_limit)
           /\ fetchLog' = Append(fetchLog, LogEntry(name, -1, "none", 0, 0))
    /\ obs' = ObsInit
    /\ pc' = "fetch"
    /\ UNCHANGED <<envVars, mainVars>>

\* Lines 534-535: the call returned.
MainRecord ==
    /\ pc = "fetch"
    /\ fetch.at = "returned"
    /\ LET name == selected_endpoints[idx]
           data == fetch.ret
       IN  /\ collection_status' = DictSet(collection_status, name, CollectionStatus(data))
           /\ dataframes' = DictSet(dataframes, name,
                                     create_dataframe(Records(data), name, {}).df)
    /\ idx' = idx + 1
    /\ pc' = "loop"
    /\ fetch' = NoCall
    /\ fetchLog' = [fetchLog EXCEPT ![Len(fetchLog)] =
                        LogEntry(@.name, Len(fetch.ret), obs.lastKind,
                                 obs.lastStatus, obs.n429)]
    /\ UNCHANGED <<envVars, selected_endpoints, success_count, exit_code,
                   call, obs>>

\* Line 535 with the handler of lines 553-556, for arguments given directly:
\* the table is stored under the name, or the exception ends main with 1
\* and the process with 1, or with 120 when stdout cannot be flushed.
FrameCall ==
    /\ pc = "frame"
    /\ \E stdout \in Stdouts :
        LET outcome == create_dataframe(frame_input.data, frame_input.name,
                                        frame_input.raises)
        IN  IF outcome.ok
            THEN /\ dataframes' = DictSet(dataframes, frame_input.name, outcome.df)
                 /\ exit_code' = exit_code
            ELSE /\ dataframes' = dataframes
                 /\ exit_code' = Some(ProcessStatus(1, stdout))
    /\ pc' = "done"
    /\ UNCHANGED <<envVars, selected_endpoints, idx, collection_status,
                   success_count, call, fetch, obs, fetchLog>>

\* Lines 546-556: how main ends after the exports.  The summary lines carry
\* an icon: on a stdout that takes them main returns 0 (line 551); on one
\* whose encoding has no icons the print of line 549 raises, the print of
\* the handler (line 555) raises as well, and the exception leaves main,
\* which the interpreter counts as 1.  On a stdout that cannot be flushed
\* main ends either way and the status is decided at line 559.
SummaryStatus(stdout) == IF stdout = "unencodable" THEN 1 ELSE 0

\* Lines 537-556 and 559: the exports, the summary and the end of the
\* process.
MainExport ==
    /\ pc = "loop"
    /\ idx > Len(selected_endpoints)
    /\ \E unwritable \in SUBSET (1..Len(dataframes)) :
          success_count' =
              Cardinality({i \in 1..Len(dataframes) :
                              export_to_csv(dataframes[i][2], i \notin unwritable)})
    /\ \E stdout \in Stdouts :
          exit_code' = Some(ProcessStatus(SummaryStatus(stdout), stdout))
    /\ pc' = "done"
    /\ UNCHANGED <<envVars, selected_endpoints, idx, collection_status,
                   dataframes, call, fetch, obs, fetchLog>>

----------------------------------------------------------------------------
(* Specifications.                                                         *)

DatasetNames == Range(DictKeys(ENDPOINTS))

\* The arguments of create_dataframe when it is not called directly.
NoFrameInput == [data |-> ListOf(<<>>), name |-> "", raises |-> {}]

\* Elements of the lists given to create_dataframe: a flat mapping, a
\* mapping with a nested mapping, a mapping nested two levels deep, mappings
\* whose flattened names coincide (a.b with a_b, in both orders, and a.b_c
\* with a_b.c), a number and a string.
FrameItems ==
    {Mapping(<< <<<<"i", "d">>, Scalar(1)>> >>),
     Mapping(<< <<<<"i", "d">>, Scalar(2)>>,
                <<<<"o", "r", "i", "g", "i", "n">>,
                  Mapping(<< <<<<"c", "a", "n", "d">>, Scalar(0)>>, <<<<"p", "a", "g", "e">>, Text("p")>> >>)>> >>),
     Mapping(<< <<<<"s", "i", "t", "e">>,
                  Mapping(<< <<<<"g", "e", "o">>, Mapping(<< <<<<"l", "a", "t">>, Scalar(7)>> >>)>> >>)>>,
                <<<<"i", "d">>, Scalar(3)>> >>),
     Mapping(<< <<<<"a">>, Mapping(<< <<<<"b">>, Scalar(1)>> >>)>>,
                <<<<"a", "_", "b">>, Scalar(2)>> >>),
     Mapping(<< <<<<"a", "_", "b">>, Scalar(2)>>,
                <<<<"a">>, Mapping(<< <<<<"b">>, Scalar(1)>> >>)>> >>),
     Mapping(<< <<<<"a">>, Mapping(<< <<<<"b", "_", "c">>, Scalar(1)>> >>)>>,
                <<<<"a", "_", "b">>, Mapping(<< <<<<"c">>, Scalar(2)>> >>)>> >>),
     Scalar(5),
     Text("a")}

\* Values given to create_dataframe: lists of up to MaxItems elements, a
\* mapping of scalars, a mapping of mappings, the empty mapping, numbers and
\* strings (falsy ones included).
FrameData ==
    {ListOf(l) : l \in UNION {[1..n -> FrameItems] : n \in 0..MaxItems}}
    \cup {Mapping(<<>>),
          Mapping(<< <<<<"i", "d">>, Scalar(1)>>, <<<<"n", "a", "m", "e">>, Text("a")>> >>),
          Mapping(<< <<<<"a">>, Mapping(<< <<<<"x">>, Scalar(1)>> >>)>>,
                     <<<<"b">>, Mapping(<< <<<<"y">>, Scalar(2)>>, <<<<"x">>, Scalar(3)>> >>)>> >>),
          Scalar(0), Scalar(5), Text(""), Text("a")}

\* --endpoints lists of n names over `names`.
ArgLists(names, n) == [1..n -> names]

\* The locals of main before its first statement, and no call running.
InitLocals ==
    /\ selected_endpoints = <<>>
    /\ idx = 0
    /\ collection_status = <<>>
    /\ dataframes = <<>>
    /\ success_count = 0
    /\ exit_code = None
    /\ call = Config(<<>>, None, None, FALSE, None)
    /\ obs = ObsInit
    /\ fetch = NoCall
    /\ fetchLog = <<>>

InitMain == pc = "start" /\ InitLocals

\* main for one --endpoints name (a dataset or an unknown name) over a
\* finite server.
Init ==
    /\ FALLBACK_URLS \in {FallbackUrls(b, "v2.1") : b \in BOOLEAN}
    /\ args_endpoints \in {Some(l) : l \in ArgLists(DatasetNames \cup {"bogus"}, 1)}
    /\ server \in [endless : {FALSE}, pages : 1..MaxServerPages, recs : {0, MaxRecs}]
    /\ faultBudget = MaxFaults
    /\ frame_input = NoFrameInput
    /\ InitMain

\* main for up to MaxArgs --endpoints names.
InitRun ==
    /\ FALLBACK_URLS = FallbackUrls(FALSE, "v2.1")
    /\ args_endpoints \in
          {Some(l) : l \in UNION {ArgLists({"sites", "agents", "bogus"}, n) : n \in 1..MaxArgs}}
    /\ server \in [endless : {FALSE}, pages : {2}, recs : {0, MaxRecs}]
    /\ faultBudget = MaxRunFaults
    /\ frame_input = NoFrameInput
    /\ InitMain

\* main for one dataset over a server that returns a nextCursor on every page.
InitCeiling ==
    /\ FALLBACK_URLS = FallbackUrls(FALSE, "v2.1")
    /\ args_endpoints \in {Some(<<n>>) : n \in {"agents", "api_tokens"}}
    /\ server \in [endless : {TRUE}, pages : {1}, recs : {0, 1}]
    /\ faultBudget = MaxRunFaults
    /\ frame_input = NoFrameInput
    /\ InitMain

\* create_dataframe called directly, for every value, for the sites dataset
\* and another one, and for every set of pandas calls that raise.
InitFrame ==
    /\ FALLBACK_URLS = FallbackUrls(TRUE, "v2.1")
    /\ args_endpoints = None
    /\ server = [endless |-> FALSE, pages |-> 1, recs |-> 0]
    /\ faultBudget = 0
    /\ frame_input \in [data : FrameData, name : {"sites", "agents"},
                         raises : SUBSET Stages]
    /\ pc = "frame"
    /\ InitLocals

Next ==
    \/ MainSelect
    \/ MainCall
    \/ PrimaryPageTop
    \/ PrimaryAttempt
    \/ AltIteration
    \/ FallbackIteration
    \/ MainRecord
    \/ MainExport

Spec == Init /\ [][Next]_vars

SpecRun == InitRun /\ [][Next]_vars

SpecCeiling == InitCeiling /\ [][Next]_vars

NextFrame == FrameCall

SpecFrame == InitFrame /\ [][NextFrame]_vars

----------------------------------------------------------------------------
(* Vocabulary of the properties.                                           *)

IsPrefix(s, t) == Len(s) <= Len(t) /\ \A i \in 1..Len(s) : s[i] = t[i]

\* The candidates of the running call in the order of the specification:
\* the primary path, the alternate paths, the fallback bases.
CandidateList ==
    <<Url(BASE_URL, call.endpoint)>>
    \o [i \in 1..Len(call.alt_endpoints) |-> Url(BASE_URL, call.alt_endpoints[i])]
    \o [j \in 1..Len(FALLBACK_URLS) |-> Url(FALLBACK_URLS[j], call.endpoint)]

PrimaryUrl == Url(BASE_URL, call.endpoint)

Running == pc = "fetch"

Returned == pc = "fetch" /\ fetch.at = "returned"

LastTried == obs.tried[Len(obs.tried)]

LastOnPrimary == obs.tried # <<>> /\ LastTried = PrimaryUrl

LastWasAuth == obs.lastKind = "http" /\ obs.lastStatus \in {401, 403}

\* The last response was a fault the retry loop treats as transient.
LastWasTransient ==
    \/ obs.lastKind \in {"conn", "timeout"}
    \/ obs.lastKind = "http" /\ obs.lastStatus \in {404, 429, 500}

\* The records of the first n pages of candidate u, in server order.
ServedPages(u, n) ==
    [k \in 1..(n * server.recs) |->
        JsonRecord(CandNo(u), ((k - 1) \div server.recs) + 1,
                              ((k - 1) % server.recs) + 1)]

----------------------------------------------------------------------------
(* C1: retry ceiling.                                                      *)

\* C1: fetch_with_retry never sends more than MAX_RETRIES consecutive failed
\* requests to the same candidate, on the first page or on a later page.
\* The code violates it on later pages of the primary endpoint: when the
\* three attempts of a page are exhausted, line 265 still sees the cursor of
\* the previous page and starts another round of three attempts.
C1_RetryCeiling == obs.consecFail <= MAX_RETRIES

----------------------------------------------------------------------------
(* C2: authentication short-circuit on the primary.                        *)

\* C2: once a request to the primary is answered 401 or 403, the call has
\* returned the empty list (so no retry, alternate or fallback request can
\* follow), whatever alternates and fallback bases are configured.
C2_AuthShortCircuit ==
    (Running /\ LastOnPrimary /\ LastWasAuth)
        => (fetch.at = "returned" /\ fetch.ret = <<>>)

\* A 401/403 on a later page of a primary with alternates and fallback
\* bases configured, after records were already received.
C2_Witness ==
    /\ Running /\ LastOnPrimary /\ LastWasAuth
    /\ obs.reqs > 1
    /\ PrimaryUrl \in obs.dataFrom
    /\ call.alt_endpoints # <<>>
    /\ FALLBACK_URLS # <<>>

----------------------------------------------------------------------------
(* C3: candidate order.                                                    *)

\* C3: the candidates are requested in the order primary, alternates in
\* configured order, fallback bases in configured order, none skipped; the
\* retrieval of every candidate but the last requested one ended in a
\* failure, so no candidate follows one whose retrieval returned data and no
\* fallback base is requested before every alternate was tried and failed.
\* (A candidate that fails on a later page has delivered pages before; its
\* retrieval still ends in failure and returns nothing.)
C3_CandidateOrder ==
    /\ IsPrefix(obs.tried, CandidateList)
    /\ \A i \in 1..(Len(obs.tried) - 1) : obs.tried[i] \in obs.failed

\* The primary failed, the first alternate failed, the second alternate
\* returned data: the call returned it and requested no fallback base.
C3_Witness ==
    /\ Returned
    /\ Len(obs.tried) = 3
    /\ Len(call.alt_endpoints) >= 2
    /\ FALLBACK_URLS # <<>>
    /\ LastTried \in obs.dataFrom
    /\ fetch.ret # <<>>

----------------------------------------------------------------------------
(* C4: what follows the exhaustion of the primary.                         *)

\* The primary has just ended without data on the exhaustion of its three
\* attempts by transient faults.
PrimaryExhausted ==
    /\ Running
    /\ obs.tried = <<PrimaryUrl>>
    /\ obs.consecFail = MAX_RETRIES
    /\ LastWasTransient
    /\ fetch.at \notin {"attempt", "page_top"}
    /\ fetch.all_data = <<>>

\* C4: whenever the primary ends without data because its three attempts
\* are exhausted (by 404 or by another transient fault), the next candidate
\* is requested: the first alternate, or the first fallback base when there
\* is no alternate.  The code violates it: line 241 sets primary_failed only
\* for a 404 on a descriptor that has alternates, so a primary without
\* alternates never reaches the fallback bases of lines 331-387, and an
\* exhaustion by 5xx, 429, connection error or timeout returns the empty
\* list.
C4_AdvanceOnExhaustion ==
    PrimaryExhausted =>
        fetch.at = (IF call.alt_endpoints # <<>> THEN "alt"
                    ELSE IF FALLBACK_URLS # <<>> THEN "fallback"
                    ELSE "returned")

\* What the code does on exhaustion (lines 241-246, 264-273, 331, 389): the
\* first alternate is requested exactly when the third attempt was answered
\* 404 and the descriptor has an alternate path; otherwise the call returns
\* the empty list.
AdvanceOn404WithAlternates ==
    PrimaryExhausted =>
        IF obs.lastKind = "http" /\ obs.lastStatus = 404 /\ call.alt_endpoints # <<>>
        THEN fetch.at = "alt" /\ fetch.alt_i = 1
        ELSE fetch.at = "returned" /\ fetch.ret = <<>>

\* The third attempt of the primary got 404 and the first alternate is next.
PrimaryNotFoundThenAlternate ==
    /\ PrimaryExhausted
    /\ obs.lastStatus = 404
    /\ fetch.at = "alt"

----------------------------------------------------------------------------
(* C5: pagination.                                                         *)

\* C5: with pagination enabled, when every request to a candidate succeeds
\* and the server has n pages, the call makes exactly n requests to it,
\* every request after the first carries the cursor returned by the page
\* before, and the result is the concatenation of the n pages in order.
C5_Pagination ==
    (Running /\ call.paginate /\ obs.tried # <<>> /\ obs.allOk /\ ~server.endless)
        => /\ obs.reqs <= server.pages
           /\ obs.reqs > 1 => (obs.sent = obs.expect /\ obs.sent # None)
           /\ fetch.at = "returned" =>
                /\ obs.reqs = server.pages
                /\ fetch.ret = ServedPages(LastTried, server.pages)

\* Three pages of two records: six records returned.
C5_Witness ==
    /\ Returned /\ call.paginate /\ obs.allOk
    /\ server.pages = 3 /\ server.recs = 2
    /\ obs.reqs = 3
    /\ Len(fetch.ret) = 6

----------------------------------------------------------------------------
(* C6: page ceiling.                                                       *)

\* C6: the page counters never exceed max_pages, and against a server that
\* returns a nextCursor on every page a candidate whose requests all
\* succeed is requested exactly max_pages times, after which the call
\* returns the records of those pages.
C6_PageCeiling ==
    /\ fetch.page_count <= max_pages
    /\ fetch.alt_page_count <= max_pages
    /\ fetch.fallback_page_count <= max_pages
    /\ (Running /\ call.paginate /\ server.endless /\ obs.tried # <<>> /\ obs.allOk)
        => /\ obs.reqs <= max_pages
           /\ fetch.at = "returned" =>
                /\ obs.reqs = max_pages
                /\ fetch.ret = ServedPages(LastTried, max_pages)

\* A fallback base served max_pages pages and the call returned them.
C6_Witness ==
    /\ Returned /\ call.paginate /\ server.endless /\ obs.allOk
    /\ fetch.at = "returned"
    /\ LastTried.base # BASE_URL
    /\ obs.reqs = max_pages
    /\ Len(fetch.ret) = max_pages

----------------------------------------------------------------------------
(* C7: when the result is empty.                                           *)

\* Every candidate of the descriptor was requested and its retrieval ended
\* in a failure.
AllCandidatesFailed == Range(CandidateList) \subseteq obs.failed

\* C7 as claimed: the returned sequence is empty if and only if every
\* candidate was tried and failed.
C7_EmptyIffAllFailed ==
    Returned => (fetch.ret = <<>> <=> AllCandidatesFailed)

\* C7 as amended: the returned sequence is empty whenever every candidate
\* was tried and failed without the primary having served a record, but not
\* only then (a 401/403 or a non-404 exhaustion on the primary, and a
\* candidate that answers successfully with zero records, end the walk with
\* an empty result); a non-empty result consists of records served by the
\* last candidate requested, and that candidate is the primary whenever its
\* retrieval ended in a failure.
C7_EmptyWhenAllFailed ==
    Returned =>
        /\ (AllCandidatesFailed /\ PrimaryUrl \notin obs.dataFrom) => fetch.ret = <<>>
        /\ fetch.ret # <<>> =>
              /\ obs.tried # <<>>
              /\ LastTried \in obs.dataFrom
              /\ LastTried \in obs.failed => LastOnPrimary

\* The primary, the alternate and both fallback bases were tried and failed.
C7_Witness ==
    /\ Returned
    /\ AllCandidatesFailed
    /\ Len(obs.tried) >= 4
    /\ fetch.ret = <<>>

----------------------------------------------------------------------------
(* C8: main fetches every selected dataset once.                           *)

LogNames == [i \in 1..Len(fetchLog) |-> fetchLog[i].name]

FirstIndex(s, x) == CHOOSE i \in 1..Len(s) : s[i] = x /\ \A h \in 1..(i - 1) : s[h] # x

\* sel holds the known names of args, once each, in order of first mention.
IsSelectionOf(sel, args) ==
    /\ Range(sel) = Range(args) \cap DatasetNames
    /\ \A i, j \in 1..Len(sel) :
          i < j => FirstIndex(args, sel[i]) < FirstIndex(args, sel[j])

\* main has selected at least one dataset: it is in the loop over the
\* datasets or past it.  (It ends before the loop when the output
\* directory cannot be created and when nothing is selected; the selection
\* is empty still, resp. again, then.)
Selected ==
    pc \in {"loop", "fetch"} \/ (pc = "done" /\ selected_endpoints # <<>>)

\* C8: once main has selected the datasets, it calls fetch_with_retry for
\* every selected dataset exactly once, in selection order, whatever the
\* earlier calls returned; when main ends, every selected dataset has a
\* table and a success flag, and the flag is true exactly when the call
\* returned at least one record, whether or not the summary could be
\* printed.  A main that ends without a selection has fetched nothing.
C8_EveryDatasetOnce ==
    /\ Selected => IsSelectionOf(selected_endpoints, args_endpoints[1])
    /\ (pc = "done" /\ selected_endpoints = <<>>) => fetchLog = <<>>
    /\ IsPrefix(LogNames, selected_endpoints)
    /\ (pc = "done" /\ selected_endpoints # <<>>) =>
          /\ LogNames = selected_endpoints
          /\ DictKeys(collection_status) = selected_endpoints
          /\ DictKeys(dataframes) = selected_endpoints
          /\ \A i \in 1..Len(fetchLog) :
                DictGet(collection_status, fetchLog[i].name, FALSE)
                    = (fetchLog[i].count > 0)

\* The first dataset ended on a 401 with nothing, the second was fetched
\* and collected.
C8_Witness ==
    /\ pc = "done"
    /\ Len(fetchLog) >= 2
    /\ fetchLog[1].count = 0
    /\ fetchLog[1].lastStatus = 401
    /\ fetchLog[2].count > 0
    /\ DictGet(collection_status, fetchLog[1].name, TRUE) = FALSE
    /\ DictGet(collection_status, fetchLog[2].name, FALSE) = TRUE

----------------------------------------------------------------------------
(* C9: backoff.                                                            *)

\* The last request followed k >= 1 failed attempts of the same retry loop.
AfterFailedAttempt == Running /\ obs.gapK >= 1

\* C9 as claimed: RETRY_DELAY * 2^(k-1) elapses between the k-th failed
\* attempt and the next request (2 s, then 4 s).
C9_GapIsBackoff ==
    AfterFailedAttempt => obs.gap = Seconds(RETRY_DELAY) * Pow2(obs.gapK - 1)

\* C9 as amended: the backoff sleep after the k-th failed attempt is
\* RETRY_DELAY * 2^(k-1) (2 s, then 4 s) and no backoff sleep follows the
\* third failure; the time between the k-th failed attempt and the next
\* request is that backoff plus the inter-request sleep of
\* max(sleep_time, REQUEST_DELAY), so at least 3 s and then 5 s.
C9_BackoffPlusRateSleep ==
    /\ AfterFailedAttempt =>
          /\ obs.backoff = Seconds(RETRY_DELAY) * Pow2(obs.gapK - 1)
          /\ obs.rateSleep >= Seconds(REQUEST_DELAY)
          /\ obs.gap = obs.backoff + obs.rateSleep
    /\ (Running /\ obs.gapK = MAX_RETRIES - 1 /\ obs.consecFail >= 1) => fetch.slept = 0
    /\ fetch.slept \in {0, Seconds(RETRY_DELAY), 2 * Seconds(RETRY_DELAY)}

\* The third attempt was sent 4 s of backoff and 1 s of rate sleep after the
\* second failure.
C9_Witness ==
    /\ AfterFailedAttempt
    /\ obs.gapK = 2
    /\ obs.backoff = 4000
    /\ obs.gap = 5000

----------------------------------------------------------------------------
(* C10: no state carried from one dataset to the next.                     *)

\* fetch_with_retry has just been entered.
AtEntry == pc = "fetch" /\ fetch.at = "page_top" /\ obs.tried = <<>>

ConfigOf(name) == DictGet(ENDPOINTS, name, Config(<<>>, None, None, FALSE, None))

\* C10: on entry of a dataset's retrieval the working delay, the attempt
\* counter and the page counter are those of the dataset's own
\* configuration, whatever happened in the retrievals before it.
C10_NoLeakBetweenDatasets ==
    AtEntry =>
        LET name == fetchLog[Len(fetchLog)].name
        IN  /\ fetch.sleep_time =
                  InitialSleepTime(ConfigOf(name).rate_limit, ConfigOf(name).endpoint)
            /\ fetch.sleep_time = (IF name = "agents" THEN 40 ELSE 1000)
            /\ fetch.attempts = 0
            /\ fetch.page_count = 0

\* The second dataset is entered after a first one that received 429s.
C10_Witness ==
    /\ AtEntry
    /\ Len(fetchLog) = 2
    /\ fetchLog[1].n429 >= 2
    /\ fetchLog[1].count > 0

----------------------------------------------------------------------------
(* C11: escalation of the working delay on 429.                            *)

\* The working delay a call that received n 429 responses should have.
EscalatedDelay(n) == InitialSleepTime(call.rate_limit, call.endpoint) * Pow2(n)

\* C11: every 429 received during a retrieval, on any candidate, doubles the
\* working delay, which is never reduced: after n 429 responses it is the
\* initial delay times 2^n, and every inter-request sleep is computed from
\* that value.  The code violates it on alternates and fallback bases: a 429
\* there is caught by the handlers of lines 326 and 385, which go on to the
\* next candidate without touching sleep_time.
C11_Every429Doubles ==
    Running =>
        /\ fetch.sleep_time = EscalatedDelay(obs.n429)
        /\ (obs.tried # <<>> /\ obs.rateSleep > 0) =>
              LET before == IF obs.lastKind = "http" /\ obs.lastStatus = 429
                            THEN obs.n429 - 1 ELSE obs.n429
              IN  obs.rateSleep \in {EscalatedDelay(before),
                                     Max(EscalatedDelay(before), Seconds(REQUEST_DELAY))}

----------------------------------------------------------------------------
(* C12: create_dataframe always returns a table.                           *)

\* The direct call of create_dataframe has ended.
FrameDone == pc = "done" /\ frame_input # NoFrameInput

\* The table the direct call stored.
FrameTable == DictGet(dataframes, frame_input.name, EmptyTable)

\* C12: create_dataframe never propagates a fault: for every value (empty
\* list, list of mappings, list of scalars, mixed list, a single value that
\* is no list), for the sites dataset and another one, and whichever pandas
\* calls raise, the caller gets a table; a falsy value gives an empty table.
C12_AlwaysATable ==
    FrameDone =>
        /\ exit_code = None
        /\ DictHas(dataframes, frame_input.name)
        /\ Falsy(frame_input.data) => IsEmptyTable(FrameTable)

\* A mixed list for sites with every pandas call of the sites branch raising:
\* the last resort raised into the outer handler, which returned a table.
C12_Witness ==
    /\ FrameDone
    /\ frame_input.name = "sites"
    /\ frame_input.data = ListOf(<<Mapping(<< <<<<"i", "d">>, Scalar(1)>> >>), Scalar(5)>>)
    /\ {"DataFrame430", "json_normalize442", "DataFrame454"} \subseteq frame_input.raises
    /\ DictHas(dataframes, "sites")
    /\ IsEmptyTable(FrameTable)

----------------------------------------------------------------------------
(* C13: rows of the table.                                                 *)

\* A direct call on a non-empty list has ended.
FrameDoneOnList ==
    FrameDone /\ IsList(frame_input.data) /\ frame_input.data.items # <<>>

NumDicts(items) == Len(SelectSeq(items, IsDict))

----------------------------------------------------------------------------
(* C14: authentication failure on any candidate.                           *)

\* C14: once a request to any candidate (primary, alternate or fallback
\* base) is answered 401 or 403, the call has returned the empty list, so no
\* further candidate is requested.  The code violates it on alternates and
\* fallback bases: the handlers of lines 326 and 385 catch the HTTPError like
\* any other exception and go on to the next candidate.
C14_AuthEndsTheWalk ==
    (Running /\ obs.tried # <<>> /\ LastWasAuth)
        => (fetch.at = "returned" /\ fetch.ret = <<>>)

----------------------------------------------------------------------------
(* C15: the pages of a candidate that failed.                              *)

\* The candidate number the server wrote into a record.
RecordCand(rec) ==
    DictGet(DictGet(rec, <<"o", "r", "i", "g", "i", "n">>, Mapping(<<>>)).v, <<"c", "a", "n", "d">>, Scalar(0)).n

\* No record of the returned sequence was served by candidate u.
NothingFrom(u) ==
    \A i \in 1..Len(fetch.ret) : RecordCand(fetch.ret[i]) # CandNo(u)

\* An alternate or a fallback base starts from an empty accumulator.
FreshAccumulators ==
    /\ (Running /\ fetch.at = "alt" /\ fetch.alt_page_count = 0)
          => fetch.alt_all_data = <<>>
    /\ (Running /\ fetch.at = "fallback" /\ fetch.fallback_page_count = 0)
          => fetch.fallback_all_data = <<>>

\* Pages the server has served to the last candidate before its failure.
PagesServed == IF obs.lastNext = None THEN 0 ELSE obs.lastNext[1]

\* The last response was a 200 whose records were added to the accumulator
\* before reading its null "pagination" raised.
LastWasNullPagination == obs.lastKind = "unexpected" /\ obs.lastStatus = 200

\* Pages in the primary's accumulator when its failure ended the call.
PagesKept == PagesServed + (IF LastWasNullPagination THEN 1 ELSE 0)

\* C15 as claimed: the pages accumulated from a candidate whose retrieval
\* failed are not part of the returned sequence, for the primary as for the
\* alternates and the fallback bases, and the next candidate starts from an
\* empty accumulator.
C15_PartialPagesDiscarded ==
    /\ Returned => \A u \in obs.failed : NothingFrom(u)
    /\ FreshAccumulators

\* C15 as amended: the pages of a failed alternate or fallback base are
\* discarded and the next candidate starts from an empty accumulator.  The
\* primary is followed by another candidate only when it has accumulated
\* nothing; when it fails after some pages it returns the empty list on a
\* 401/403 and the pages accumulated so far on an unexpected fault, the page
\* of the faulting response included when the fault is raised after its
\* records were added.
C15_PartialPagesOfPrimaryKept ==
    /\ Returned => \A u \in obs.failed \ {PrimaryUrl} : NothingFrom(u)
    /\ FreshAccumulators
    /\ (Running /\ Len(obs.tried) > 1) => PrimaryUrl \notin obs.dataFrom
    /\ (Returned /\ obs.tried = <<PrimaryUrl>> /\ PrimaryUrl \in obs.failed) =>
          fetch.ret = (IF LastWasAuth THEN <<>>
                       ELSE ServedPages(PrimaryUrl, PagesKept))

\* The primary served two pages of two records and hit an unexpected fault
\* on the third: the four records are returned.
C15_Witness ==
    /\ Returned
    /\ obs.tried = <<PrimaryUrl>>
    /\ PrimaryUrl \in obs.failed
    /\ obs.lastKind = "unexpected"
    /\ PagesServed = 2
    /\ Len(fetch.ret) = 4

----------------------------------------------------------------------------
(* C16: termination.                                                       *)

\* The requests sent to the current candidate are bounded by its counters:
\* at most MAX_RETRIES per pass of the primary's pagination loop, one per
\* page of an alternate or a fallback base, and at most max_pages passes.
RequestsBounded ==
    (Running /\ obs.tried # <<>>) =>
        /\ fetch.page_count <= max_pages
        /\ fetch.alt_page_count <= max_pages
        /\ fetch.fallback_page_count <= max_pages
        /\ obs.reqs <= MAX_RETRIES * max_pages
        /\ LastOnPrimary => obs.reqs <= MAX_RETRIES * fetch.page_count
        /\ ~LastOnPrimary => obs.reqs <= max_pages
        /\ (fetch.at = "alt" /\ LastTried = fetch.alt_url)
              => obs.reqs <= fetch.alt_page_count
        /\ (fetch.at = "fallback" /\ LastTried = fetch.fallback_full_url)
              => obs.reqs <= fetch.fallback_page_count

\* Steps the call can still take, at most: a pass of the primary's
\* pagination loop is its top and MAX_RETRIES attempts, a candidate after
\* the primary is max_pages requests, the pass that meets the ceiling and the
\* hand-over.
CandidateSteps == max_pages + 2

StepsAfter(i, j) ==
    ((Len(call.alt_endpoints) - i) + (Len(FALLBACK_URLS) - j)) * CandidateSteps

StepsLeft ==
    IF fetch.at = "page_top"
    THEN (max_pages - fetch.page_count) * (MAX_RETRIES + 1) + 1 + StepsAfter(0, 0)
    ELSE IF fetch.at = "attempt"
    THEN (max_pages - fetch.page_count) * (MAX_RETRIES + 1)
         + (MAX_RETRIES + 1 - fetch.attempts) + StepsAfter(0, 0)
    ELSE IF fetch.at = "alt"
    THEN (max_pages - fetch.alt_page_count) + 1 + StepsAfter(fetch.alt_i, 0)
    ELSE IF fetch.at = "fallback"
    THEN (max_pages - fetch.fallback_page_count) + 1
         + StepsAfter(Len(call.alt_endpoints), fetch.fb_i)
    ELSE 0

\* A statement of the running call can run.
CanStep ==
    ENABLED (PrimaryPageTop \/ PrimaryAttempt \/ AltIteration \/ FallbackIteration)

\* C16: every call of fetch_with_retry terminates, whatever the transport
\* answers (faults, and a nextCursor on every page), given that each request
\* and each sleep returns: the requests to each candidate are bounded by its
\* attempt and page ceilings, a call that has not returned can always take a
\* step, every step lowers a bound on the steps left, which is never
\* negative, and the only way out is returning a record list.
C16_Terminates ==
    /\ []RequestsBounded
    /\ []((Running /\ ~Returned) => (CanStep /\ StepsLeft > 0))
    /\ [][(Running /\ ~Returned) => (Running' /\ StepsLeft' < StepsLeft)]_vars

\* A call that met faults on the primary and still ran into the page
\* ceiling against a server that always has a next page has returned.
C16_Witness ==
    /\ Returned
    /\ server.endless
    /\ call.paginate
    /\ obs.faults = faultBudget
    /\ fetch.page_count = max_pages

----------------------------------------------------------------------------
(* C18: an unexpected fault on any candidate.                              *)

LastWasUnexpected == obs.lastKind = "unexpected"

\* C18: once a request to any candidate (primary, alternate or fallback
\* base) met an unexpected fault, the call has returned: the request is not
\* retried and no further candidate is requested.  The code violates it on
\* alternates and fallback bases, whose handlers (lines 326 and 385) go on to
\* the next candidate.
C18_UnexpectedEndsTheWalk ==
    (Running /\ obs.tried # <<>> /\ LastWasUnexpected) => fetch.at = "returned"

\* What holds of the code: the unexpected fault ends the call when it is met
\* on the primary, or on the last candidate there is.
UnexpectedEndsOnPrimary ==
    (Running /\ obs.tried # <<>> /\ LastWasUnexpected /\ LastOnPrimary)
        => fetch.at = "returned"

----------------------------------------------------------------------------
(* C19: retries on alternates and fallback bases.                          *)

\* The last response was a connection error, a timeout, a 5xx or a 429.
LastWasRetryable ==
    \/ obs.lastKind \in {"conn", "timeout"}
    \/ obs.lastKind = "http" /\ obs.lastStatus \in {429, 500}

\* The call is still on the candidate it requested last.
StillOnLastCandidate ==
    \/ fetch.at = "alt" /\ fetch.alt_url = LastTried
    \/ fetch.at = "fallback" /\ fetch.fallback_full_url = LastTried

\* C19: after a transient fault on an alternate or a fallback base that is
\* not the third consecutive failure there, the call stays on that candidate
\* (it retries it after a backoff sleep) instead of moving to the next
\* candidate or returning.  The code violates it: an alternate or fallback
\* base gets one attempt per page and any exception moves on.
C19_AlternatesRetry ==
    (Running /\ obs.tried # <<>> /\ ~LastOnPrimary /\ LastWasRetryable
        /\ obs.consecFail < MAX_RETRIES)
        => (StillOnLastCandidate /\ fetch.slept > 0)

\* What holds of the code: a candidate after the primary never gets a
\* second request after a failure.
AlternatesNeverRetried ==
    (Running /\ obs.tried # <<>> /\ ~LastOnPrimary)
        => /\ obs.consecFail <= 1
           /\ obs.lastKind # "ok" => ~StillOnLastCandidate

----------------------------------------------------------------------------
(* C20: a call that does not paginate.                                     *)

\* C20: in a call with paginate false, no request carries a cursor
\* parameter, and a successful response ends the call at once, whether or
\* not it carries a nextCursor: the call returns the records of that one
\* response, so the candidate gets exactly one successful request, and no
\* cursor local is ever set.
C20_OneRequestWithoutPagination ==
    (Running /\ ~call.paginate /\ obs.tried # <<>>)
        => /\ obs.sent = None
           /\ fetch.current_params = call.params
           /\ fetch.next_cursor = None
           /\ fetch.alt_next_cursor = None
           /\ fetch.fallback_next_cursor = None
           /\ obs.lastKind = "ok"
                 => /\ Returned
                    /\ fetch.ret = PageRecords(CandNo(LastTried), 0)

\* A call that does not paginate returned the one page of an alternate
\* whose response offered a nextCursor.
C20_Witness ==
    /\ Returned
    /\ ~call.paginate
    /\ ~LastOnPrimary
    /\ obs.tried # <<>>
    /\ obs.lastKind = "ok"
    /\ obs.lastNext # None
    /\ fetch.ret # <<>>

\* The same on the primary.
NoPaginationOnPrimary ==
    /\ Returned
    /\ ~call.paginate
    /\ LastOnPrimary
    /\ obs.reqs > 1
    /\ obs.lastKind = "ok"
    /\ obs.lastNext # None
    /\ fetch.ret # <<>>

----------------------------------------------------------------------------
(* C21: nested mappings in the records.                                    *)

\* create_dataframe was called directly on a non-empty list of mappings.
FrameDoneOnMappings ==
    FrameDoneOnList /\ \A i \in 1..Len(frame_input.data.items) :
                            IsDict(frame_input.data.items[i])

\* The value the row holds under a column.
Cell(row, column) == DictGet(row, column, Scalar(0))

\* The writes of lines 419-426 for the record d, as <<j, m>>: entry j of d
\* itself (m = 0) when its value is no mapping, else sub-entry m of it.
Writes(d) ==
    {<<j, 0>> : j \in {i \in 1..Len(d) : ~IsDict(d[i][2])}}
        \cup UNION { {<<j, m>> : m \in 1..Len(d[j][2].v)} :
                        j \in {i \in 1..Len(d) : IsDict(d[i][2])} }

\* The column a write goes to, as a string: key, or key_subkey.
WrittenName(d, w) ==
    IF w[2] = 0 THEN d[w[1]][1]
    ELSE d[w[1]][1] \o <<"_">> \o d[w[1]][2].v[w[2]][1]

WrittenValue(d, w) ==
    IF w[2] = 0 THEN d[w[1]][2] ELSE d[w[1]][2].v[w[2]][2]

Later(w1, w2) == w1[1] > w2[1] \/ (w1[1] = w2[1] /\ w1[2] > w2[2])

\* No key_subkey name of the record coincides with a key of the record or
\* with another key_subkey name.
NamesApart(d) ==
    \A w1 \in Writes(d) :
        /\ w1[2] # 0 => \A j \in 1..Len(d) : WrittenName(d, w1) # d[j][1]
        /\ \A w2 \in Writes(d) : WrittenName(d, w1) = WrittenName(d, w2) => w1 = w2

\* The row holds the record d flattened by one level: a value that is a
\* mapping is replaced by one key_subkey entry per sub-entry, holding the
\* sub-value as it is, and every other value stays under its key.
FlattenedOneLevel(d, row) ==
    \A j \in 1..Len(d) :
        LET key   == d[j][1]
            value == d[j][2]
        IN  IF IsDict(value)
            THEN /\ ~DictHas(row, key)
                 /\ \A m \in 1..Len(value.v) :
                        /\ DictHas(row, key \o <<"_">> \o value.v[m][1])
                        /\ Cell(row, key \o <<"_">> \o value.v[m][1]) = value.v[m][2]
            ELSE /\ DictHas(row, key)
                 /\ Cell(row, key) = value

\* The row holds one entry per written name, with the value written last.
LastWriteWins(d, row) ==
    /\ Len(row) = Cardinality({WrittenName(d, w) : w \in Writes(d)})
    /\ \A w \in Writes(d) :
          /\ DictHas(row, WrittenName(d, w))
          /\ (\A w2 \in Writes(d) :
                  WrittenName(d, w2) = WrittenName(d, w) => ~Later(w2, w))
                => Cell(row, WrittenName(d, w)) = WrittenValue(d, w)

\* No value of d that is a mapping is in the row under its key.
NoMappingUnderKey(d, row) ==
    \A j \in 1..Len(d) :
        IsDict(d[j][2]) => ~(DictHas(row, d[j][1]) /\ IsDict(Cell(row, d[j][1])))

\* The row holds every value of d under its key, mappings included.
KeptAsIs(d, row) ==
    \A j \in 1..Len(d) : DictHas(row, d[j][1]) /\ Cell(row, d[j][1]) = d[j][2]

NamesCoincide ==
    /\ FrameDoneOnMappings
    /\ frame_input.name = "sites"
    /\ frame_input.raises = {}
    /\ \E i \in 1..Len(FrameTable.rows) :
          /\ ~NamesApart(frame_input.data.items[i].v)
          /\ FrameTable.rows[i] = << <<<<"a", "_", "b", "_", "c">>, Scalar(2)>> >>

\* A list of another dataset keeps the nested mapping under its key.
NestedKeptOutsideSites ==
    /\ FrameDoneOnMappings
    /\ frame_input.name # "sites"
    /\ frame_input.raises = {}
    /\ \E i \in 1..Len(FrameTable.rows) :
          /\ DictHas(FrameTable.rows[i], <<"o", "r", "i", "g", "i", "n">>)
          /\ IsDict(Cell(FrameTable.rows[i], <<"o", "r", "i", "g", "i", "n">>))

----------------------------------------------------------------------------
(* C22: 404 on the primary.                                                *)

LastWasNotFound == obs.lastKind = "http" /\ obs.lastStatus = 404

\* Only the primary has been requested so far, and only its first page.
OnFirstPageOfPrimary ==
    Running /\ obs.tried = <<PrimaryUrl>> /\ fetch.page_count = 1

\* The first or second request of the primary's first page was answered 404:
\* the call is about to retry the primary after the backoff sleep of any
\* failed attempt.
NotFoundRetried ==
    (OnFirstPageOfPrimary /\ LastWasNotFound /\ obs.reqs < MAX_RETRIES)
        => /\ fetch.at = "attempt"
           /\ fetch.attempts = obs.reqs
           /\ fetch.slept = WaitTime(obs.reqs)

\* The primary has been requested exactly MAX_RETRIES times, all on its
\* first page and none with success, and the last answer was 404.
PrimaryGivenUpOn404 ==
    /\ OnFirstPageOfPrimary
    /\ obs.reqs = MAX_RETRIES
    /\ obs.consecFail = MAX_RETRIES
    /\ LastWasNotFound

\* C22: a 404 on attempt 1 or 2 of the primary is retried like any transient
\* fault, and whenever the call is on a candidate other than the primary, or
\* a step sends the first request to one, the primary had been requested
\* exactly 3 times on its first page and the third answer was 404.
C22_AlternateOnlyAfterThird404 ==
    /\ []NotFoundRetried
    /\ []((Running /\ fetch.at \in {"alt", "fallback"} /\ Len(obs.tried) <= 1)
            => PrimaryGivenUpOn404)
    /\ [][(Running /\ Len(obs.tried) <= 1 /\ Len(obs.tried') > 1)
            => PrimaryGivenUpOn404]_vars

\* Two 404s were retried, the third gave the primary up and the first
\* alternate has been requested.
C22_Witness ==
    /\ Running
    /\ Len(obs.tried) = 2
    /\ obs.tried[1] = PrimaryUrl
    /\ obs.faults = MAX_RETRIES
    /\ obs.lastKind = "ok"

----------------------------------------------------------------------------
(* C23: one candidate per result.                                          *)

\* Every record of the list was served by candidate number c.
AllFrom(records, c) == \A i \in 1..Len(records) : RecordCand(records[i]) = c

\* C23: every record list fetch_with_retry returns consists of records
\* served by one candidate URL, the last one requested; the accumulators of
\* the primary, of the running alternate and of the running fallback base
\* each hold records of their own candidate only, so records of two
\* candidates are never combined.
C23_OneCandidatePerResult ==
    Running =>
        /\ AllFrom(fetch.all_data, 0)
        /\ fetch.at = "alt" => AllFrom(fetch.alt_all_data, CandNo(fetch.alt_url))
        /\ fetch.at = "fallback"
              => AllFrom(fetch.fallback_all_data, CandNo(fetch.fallback_full_url))
        /\ (fetch.at = "returned" /\ fetch.ret # <<>>)
              => /\ obs.tried # <<>>
                 /\ AllFrom(fetch.ret, CandNo(LastTried))

\* An alternate served a page and failed on the next one, a later candidate
\* served the records returned.
C23_Witness ==
    /\ Returned
    /\ fetch.ret # <<>>
    /\ Len(obs.tried) >= 3
    /\ Cardinality(obs.dataFrom) >= 2

----------------------------------------------------------------------------
(* C24: 401/403 on a later page of the primary.                            *)

\* The last request, to the primary, was answered 401 or 403 after an
\* earlier page of the primary had delivered records.
AuthOnLaterPage ==
    /\ obs.tried = <<PrimaryUrl>>
    /\ LastWasAuth
    /\ PrimaryUrl \in obs.dataFrom

\* What main recorded of the last call.
LastLogged == fetchLog[Len(fetchLog)]

\* C24: when the primary answers 401 or 403 on a page after the first,
\* fetch_with_retry returns the empty list, not the records of the pages
\* before, and main records the dataset as not collected, with an empty
\* table that is not exported.
C24_AuthOnLaterPageDropsData ==
    AuthOnLaterPage =>
        /\ pc = "fetch" => (fetch.at = "returned" /\ fetch.ret = <<>>)
        /\ pc \in {"loop", "done"} =>
              /\ fetchLog # <<>>
              /\ LastLogged.count = 0
              /\ DictHas(collection_status, LastLogged.name)
              /\ DictGet(collection_status, LastLogged.name, TRUE) = FALSE
              /\ DictGet(dataframes, LastLogged.name, EmptyTable) = EmptyTable
        /\ pc = "done" => success_count = 0

\* Two pages of the primary delivered records, the third request was
\* answered 403, and main has recorded the dataset as not collected.
C24_Witness ==
    /\ AuthOnLaterPage
    /\ pc = "done"
    /\ obs.lastStatus = 403
    /\ obs.lastNext = Some(2)
    /\ server.recs > 0
    /\ DictGet(collection_status, LastLogged.name, TRUE) = FALSE

====
